---------------------------- MODULE Spec2Model ----------------------------
(***************************************************************************)
(* Model of src/app.py, the "2026" stock rating dashboard: the scoring     *)
(* engine calculate_2026_score, the JSON persistence helpers               *)
(* save_to_storage / load_from_storage, the two retry loops                *)
(* get_stock_data and call_gemini_with_retry, and the Streamlit script     *)
(* run (session state, sidebar widgets, slider callbacks).                 *)
(*                                                                         *)
(* Numbers.  Python floats are carried as fixed-point integers:            *)
(*   - a score is held in units of 1/SU point (SU = 10^4);                  *)
(*   - a weight is held in hundredths (0.25 is 25);                         *)
(*   - a weighted total is held in units of 1/TU point (TU = SU * 100);     *)
(*   - forwardPE is held in tenths, the ratios returnOnEquity,              *)
(*     grossMargins, operatingMargins, revenueGrowth in hundredths;         *)
(*   - a value returned through round(x, 2) is held in hundredths.          *)
(* Sector names are written in ASCII: "Security" is the source's 資安,     *)
(* "Semi" is 半導體, "Energy" is 能源.                                     *)
(***************************************************************************)
EXTENDS Integers, Sequences, FiniteSets, TLC

VARIABLES
    \* ---- one call of calculate_2026_score ----
    info,             \* the provider's record: a function from the keys present to numbers
    sector,           \* the sector the stock is displayed under
    manual_in,        \* the manual_scores argument: keys Policy / Moat, possibly missing
    sector_avg_data,  \* the sector_avg_data argument
    stock_weights,    \* the stock_weights argument
    score_pc,         \* position in the function: "call", "weighted", "done"
    loc,              \* the locals once the weighted sum is computed (line 200)
    scores,           \* the return value: <<>> is None, <<r>> is the dict r
    \* ---- st.session_state ----
    persistent,       \* the persistent_<key> entries: key -> JSON text
    manual_scores,    \* st.session_state.manual_scores
    weights,          \* st.session_state.weights
    stock_insights,   \* st.session_state.stock_insights
    ai_adjusted,      \* st.session_state.ai_adjusted
    selected_sector,  \* the sector selectbox
    selected_stock,   \* the stock selectbox; current_stock is the same value
    batch_sector,     \* the batch sector selectbox
    slider_p,         \* st.session_state[f"{current_stock}_p"]
    slider_m,         \* st.session_state[f"{current_stock}_m"]
    page,             \* how far the last script run rendered: "all", "batch", "analyze"
    event,            \* the interaction that started the last script run
    user_set,         \* per ticker and dimension, the value the user set last and how often
    runs,             \* script runs since the session began
    batch_results,    \* the results the batch of the last run returned, if it ran one
    \* ---- one save / load / save round of the storage helpers ----
    store_pc,         \* "start", "saved", "loaded", "resaved"
    loaded,           \* what load_from_storage returned
    \* ---- one call of get_stock_data ----
    retry_count,      \* the retry_count argument
    fetch_attempt,    \* the loop variable attempt
    fetch_pc,         \* "loop", "got", "done"
    fetch_hist,       \* what each provider query gave: -1 an exception, n >= 0 an info of n fields
    fetch_sleeps,     \* the time.sleep calls: [secs, after], after = queries made before it
    fetch_ret,        \* the return value: <<>> is None, <<[attempt, fields]>> that attempt's info
    \* ---- one call of call_gemini_with_retry ----
    max_retries,      \* the max_retries argument
    gem_attempt,      \* the loop variable attempt
    delay,            \* the local delay
    gem_pc,           \* "loop", "got", "done"
    gem_hist,         \* what each API call gave: an exception or a response text
    gem_sleeps,       \* the durations of the time.sleep calls, in order
    gem_ret,          \* the return value: <<>> is None, <<x>> the parsed JSON x
    \* ---- the display part of one script run (lines 507-584) ----
    fetched,          \* what get_stock_data returns per stock: <<>> is None, <<i>> the info i
    disp_pc,          \* "start", "compare", "done"
    disp_main,        \* what the page shows for the selected stock
    disp_rows,        \* the rows of the sector table, as displayed
    disp_failed       \* failed_stocks

scoreVars == <<info, sector, manual_in, sector_avg_data, stock_weights, score_pc, loc, scores>>

storeVars == <<store_pc, loaded>>

fetchVars == <<retry_count, fetch_attempt, fetch_pc, fetch_hist, fetch_sleeps, fetch_ret>>

gemVars == <<max_retries, gem_attempt, delay, gem_pc, gem_hist, gem_sleeps, gem_ret>>

dispVars == <<fetched, disp_pc, disp_main, disp_rows, disp_failed>>

uiVars == <<weights, stock_insights, ai_adjusted, selected_sector, selected_stock,
            batch_sector, slider_p, slider_m, page, event, user_set, runs, batch_results>>

vars == <<scoreVars, persistent, manual_scores, uiVars, storeVars, fetchVars, gemVars, dispVars>>

\* what each part of the model leaves alone
nonScoreVars == <<persistent, manual_scores, uiVars, storeVars, fetchVars, gemVars, dispVars>>
nonStoreVars == <<scoreVars, uiVars, fetchVars, gemVars, dispVars>>
nonFetchVars == <<scoreVars, persistent, manual_scores, uiVars, storeVars, gemVars, dispVars>>
nonGemVars   == <<scoreVars, persistent, manual_scores, uiVars, storeVars, fetchVars, dispVars>>
nonUIVars    == <<scoreVars, storeVars, fetchVars, gemVars, dispVars>>
nonDispVars  == <<scoreVars, persistent, manual_scores, uiVars, storeVars, fetchVars, gemVars>>

-----------------------------------------------------------------------------
(* Arithmetic helpers *)

Min(a, b) == IF a <= b THEN a ELSE b
Max(a, b) == IF a >= b THEN a ELSE b

\* Units of one score point (fixed point for Python's float).
SU == 100 * 100
\* Units of one point of a weighted total: a score times a weight in hundredths.
TU == SU * 100

\* dict.get(k, default)
Get(d, k, default) == IF k \in DOMAIN d THEN d[k] ELSE default

\* round(x, 2) of a value held in units of 1/unit point: the result in
\* hundredths, ties to even.
Round2(x, unit) ==
    LET per == unit \div 100
        q   == x \div per
        r   == x % per
    IN  IF 2 * r > per THEN q + 1
        ELSE IF 2 * r < per THEN q
        ELSE IF q % 2 = 0 THEN q ELSE q + 1

-----------------------------------------------------------------------------
(* Static tables *)

SectorNames == {"Mag7", "Security", "Semi", "Energy", "NeoCloud"}

WeightKeys == {"Valuation", "Quality", "Growth", "MoatPolicy"}

W(v, q, g, m) == [Valuation |-> v, Quality |-> q, Growth |-> g, MoatPolicy |-> m]

\* SECTOR_CONFIG[s]["weights"], in hundredths
SECTOR_CONFIG ==
    [Mag7     |-> W(25, 25, 30, 20),
     Security |-> W(20, 30, 30, 20),
     Energy   |-> W(15, 35, 15, 35),
     Semi     |-> W(30, 25, 30, 15),
     NeoCloud |-> W(10, 15, 60, 15)]

\* SECTORS, cut down: two of the five sectors, two stocks each, with NVDA
\* listed in both as in the source.  SectorOrder is the dict's iteration order.
SectorOrder == <<"Mag7", "Semi">>
SECTORS == [Mag7 |-> <<"AAPL", "NVDA">>, Semi |-> <<"NVDA", "AMD">>]
UISectors == { SectorOrder[i] : i \in 1..Len(SectorOrder) }
StocksOf(sec) == { SECTORS[sec][i] : i \in 1..Len(SECTORS[sec]) }
Stocks == UNION { StocksOf(sec) : sec \in UISectors }

-----------------------------------------------------------------------------
(* Python values and JSON text *)

\* A Python value is tagged with its type.  A dict keeps its items in
\* insertion order, as Python's dict does and json.dumps writes them.
JNull    == [t |-> "null", v |-> 0]
JNum(n)  == [t |-> "num",  v |-> n]
JStr(s)  == [t |-> "str",  v |-> s]
JBool(b) == [t |-> "bool", v |-> b]
JDict(items) == [t |-> "dict", v |-> items]
Item(k, x) == [k |-> k, x |-> x]

EmptyDict == JDict(<<>>)

DKeys(d)   == { d.v[i].k : i \in 1..Len(d.v) }
DHas(d, k) == k \in DKeys(d)
DIndex(d, k) == CHOOSE i \in 1..Len(d.v) : d.v[i].k = k
\* d[k]
DGet(d, k) == d.v[DIndex(d, k)].x
\* d[k] = x: in place when the key exists, appended otherwise
DSet(d, k, x) ==
    IF DHas(d, k)
    THEN JDict([d.v EXCEPT ![DIndex(d, k)] = Item(k, x)])
    ELSE JDict(Append(d.v, Item(k, x)))

\* bool(x)
Truthy(x) ==
    CASE x.t = "null" -> FALSE
      [] x.t = "bool" -> x.v
      [] x.t = "num"  -> x.v # 0
      [] x.t = "str"  -> x.v # ""
      [] x.t = "dict" -> Len(x.v) > 0

\* a == b: dicts compare by content, whatever the order of their items
RECURSIVE PyEq(_, _)
PyEq(a, b) ==
    IF a.t # b.t THEN FALSE
    ELSE IF a.t = "dict"
         THEN /\ DKeys(a) = DKeys(b)
              /\ Len(a.v) = Len(b.v)
              /\ \A k \in DKeys(a) : PyEq(DGet(a, k), DGet(b, k))
         ELSE a.v = b.v

\* JSON text is a sequence of lexemes: punctuation, string literals, the
\* words true / false / null, and the characters of a number.
Tok(k, s) == [k |-> k, s |-> s]
P(s) == Tok("p", s)

DigitChar == <<"0", "1", "2", "3", "4", "5", "6", "7", "8", "9">>
DigitOf(c) == (CHOOSE i \in 1..10 : DigitChar[i] = c) - 1
IsDigit(tk) == tk.k = "d" /\ \E i \in 1..10 : DigitChar[i] = tk.s

RECURSIVE NatTokens(_)
NatTokens(n) ==
    IF n < 10 THEN <<Tok("d", DigitChar[n + 1])>>
    ELSE Append(NatTokens(n \div 10), Tok("d", DigitChar[(n % 10) + 1]))

NumTokens(n) == IF n < 0 THEN <<P("-")>> \o NatTokens(0 - n) ELSE NatTokens(n)

\* json.dumps(x)
RECURSIVE Dumps(_)
RECURSIVE DumpItems(_, _)
DumpItems(items, i) ==
    IF i > Len(items) THEN <<>>
    ELSE (IF i > 1 THEN <<P(",")>> ELSE <<>>)
         \o <<Tok("s", items[i].k), P(":")>>
         \o Dumps(items[i].x)
         \o DumpItems(items, i + 1)
Dumps(x) ==
    CASE x.t = "null" -> <<Tok("w", "null")>>
      [] x.t = "bool" -> <<Tok("w", IF x.v THEN "true" ELSE "false")>>
      [] x.t = "num"  -> NumTokens(x.v)
      [] x.t = "str"  -> <<Tok("s", x.v)>>
      [] x.t = "dict" -> <<P("{")>> \o DumpItems(x.v, 1) \o <<P("}")>>

\* The parser behind json.loads: a result is [ok, val, next], next being the
\* position after the value read.
ParseFail == [ok |-> FALSE, val |-> JNull, next |-> 0]
ParseOk(x, n) == [ok |-> TRUE, val |-> x, next |-> n]

RECURSIVE ParseDigits(_, _, _)
ParseDigits(toks, i, acc) ==
    IF i <= Len(toks) /\ IsDigit(toks[i])
    THEN ParseDigits(toks, i + 1, acc * 10 + DigitOf(toks[i].s))
    ELSE ParseOk(acc, i)

\* a number: an optional sign, then digits with no leading zero
ParseNum(toks, i) ==
    LET neg   == toks[i] = P("-")
        first == IF neg THEN i + 1 ELSE i
    IN  IF first > Len(toks) \/ ~IsDigit(toks[first]) THEN ParseFail
        ELSE LET r == ParseDigits(toks, first, 0)
             IN  IF toks[first].s = "0" /\ r.next > first + 1 THEN ParseFail
                 ELSE ParseOk(JNum(IF neg THEN 0 - r.val ELSE r.val), r.next)

RECURSIVE ParseValue(_, _)
RECURSIVE ParseMembers(_, _, _)
\* the members of an object from position i on, acc being those read so far
ParseMembers(toks, i, acc) ==
    IF i + 1 > Len(toks) \/ toks[i].k # "s" \/ toks[i + 1] # P(":") THEN ParseFail
    ELSE LET r == ParseValue(toks, i + 2)
         IN  IF ~r.ok \/ r.next > Len(toks) THEN ParseFail
             ELSE LET d == DSet(acc, toks[i].s, r.val)
                  IN  IF toks[r.next] = P("}") THEN ParseOk(d, r.next + 1)
                      ELSE IF toks[r.next] = P(",") THEN ParseMembers(toks, r.next + 1, d)
                      ELSE ParseFail
ParseValue(toks, i) ==
    IF i > Len(toks) THEN ParseFail
    ELSE LET tk == toks[i]
         IN  CASE tk.k = "s" -> ParseOk(JStr(tk.s), i + 1)
               [] tk.k = "w" ->
                    (CASE tk.s = "true"  -> ParseOk(JBool(TRUE), i + 1)
                       [] tk.s = "false" -> ParseOk(JBool(FALSE), i + 1)
                       [] tk.s = "null"  -> ParseOk(JNull, i + 1)
                       [] OTHER          -> ParseFail)
               [] tk.k = "d" \/ tk = P("-") -> ParseNum(toks, i)
               [] tk = P("{") ->
                    IF i + 1 <= Len(toks) /\ toks[i + 1] = P("}")
                    THEN ParseOk(EmptyDict, i + 2)
                    ELSE ParseMembers(toks, i + 1, EmptyDict)
               [] OTHER -> ParseFail

\* json.loads(text): <<x>> when the text is one JSON value, <<>> when it raises
Loads(toks) ==
    LET r == ParseValue(toks, 1)
    IN  IF r.ok /\ r.next = Len(toks) + 1 THEN <<r.val>> ELSE <<>>

-----------------------------------------------------------------------------
(* Persistence helpers: lines 89-104 *)

\* save_to_storage(key, data): the new persistent_<key> entries.  json.dumps
\* does not raise on the values held here (str keys, numbers, bools, dicts).
SaveNothing(p, key, data) ==
    [k \in DOMAIN p \cup {key} |-> IF k = key THEN Dumps(EmptyDict) ELSE p[k]]
save_to_storage(p, key, data) ==
    [k \in DOMAIN p \cup {key} |-> IF k = key THEN Dumps(data) ELSE p[k]]

\* load_from_storage(key, default)
load_from_storage(p, key, default) ==
    IF key \in DOMAIN p
    THEN LET r == Loads(p[key]) IN IF r # <<>> THEN r[1] ELSE default
    ELSE default

-----------------------------------------------------------------------------
(* calculate_2026_score *)

\* max(0, min(100, x)) on a score in SU units
Clamp100(x) == Max(0, Min(100 * SU, x))

\* 1. Valuation: lines 152-159.  forwardPE is in tenths; a missing key, None
\* and 0 are all falsy at line 155.
ValScoreFlipped(i, sec, avgd) ==
    LET fwd_pe     == Get(i, "forwardPE", 0)
        avg_fwd_pe == Get(avgd, "avg_fwd_pe", 25)
    IN  IF fwd_pe # 0 /\ fwd_pe > 0
        THEN LET base == Clamp100((avg_fwd_pe * 10 * 50 * SU) \div fwd_pe)
             IN  IF sec = "Mag7" /\ fwd_pe > avg_fwd_pe * 9
                 THEN Min(100 * SU, (base * 12) \div 10)
                 ELSE base
        ELSE 50 * SU
ValScore(i, sec, avgd) ==
    LET fwd_pe     == Get(i, "forwardPE", 0)
        avg_fwd_pe == Get(avgd, "avg_fwd_pe", 25)
    IN  IF fwd_pe # 0 /\ fwd_pe > 0
        THEN LET base == Clamp100((avg_fwd_pe * 10 * 50 * SU) \div fwd_pe)
             IN  IF sec = "Mag7" /\ fwd_pe < avg_fwd_pe * 9
                 THEN Min(100 * SU, (base * 12) \div 10)
                 ELSE base
        ELSE 50 * SU

\* 2. Quality: lines 162-179.  The ratios are in hundredths.
QualScore(i, sec) ==
    LET roe          == Get(i, "returnOnEquity", 0)
        fcf          == Get(i, "freeCashflow", 0)
        gross_margin == Get(i, "grossMargins", 0)
        op_margin    == Get(i, "operatingMargins", 0)
    IN  CASE sec = "Mag7"     -> Clamp100(roe * 4 * SU)
          [] sec = "Security" -> Clamp100(gross_margin * SU)
                                   + (IF gross_margin > 75 THEN 20 * SU ELSE 0)
          [] sec = "Energy"   -> (IF fcf > 0 THEN 100 * SU ELSE 50 * SU)
                                   - (IF fcf < 0 THEN 50 * SU ELSE 0)
          [] sec = "Semi"     -> Clamp100(op_margin * 3 * SU)
          [] sec = "NeoCloud" -> 50 * SU
          [] OTHER            -> 50 * SU

\* 3. Growth: lines 182-186.
GrowthScore(i, sec) ==
    LET rev_growth == Get(i, "revenueGrowth", 0)
        g0 == Clamp100(rev_growth * 2 * SU)
        g1 == IF sec = "Mag7" /\ rev_growth > 20 THEN (g0 * 12) \div 10 ELSE g0
    IN  IF sec = "NeoCloud" /\ rev_growth > 40 THEN 100 * SU ELSE g1

\* 4. MoatPolicy: lines 189-191.
MoatPolicyScore(m) == ((Get(m, "Policy", 50) + Get(m, "Moat", 50)) * SU) \div 2

\* 5. The weighted sum of lines 195-200, in TU units.
WeightedTotal(v, q, g, mp, w) ==
    v * w["Valuation"] + q * w["Quality"] + g * w["Growth"] + mp * w["MoatPolicy"]

\* 6. final_adjustment of lines 203-205, in points.
FinalAdjustment(i, sec) ==
    LET fcf          == Get(i, "freeCashflow", 0)
        gross_margin == Get(i, "grossMargins", 0)
    IN  (IF sec = "Security" /\ gross_margin > 75 THEN 5 ELSE 0)
        + (IF (sec = "Energy" \/ sec = "NeoCloud") /\ fcf < 0 THEN -10 ELSE 0)

\* line 207: max(0, min(100, total_score + final_adjustment)), in TU units
ClampTotalNoUpper(t, adj) == Max(0, t + adj * TU)
ClampTotal(t, adj) == Max(0, Min(100 * TU, t + adj * TU))

\* The locals at line 200.
Locals(i, sec, m, avgd, w) ==
    LET v  == ValScore(i, sec, avgd)
        q  == QualScore(i, sec)
        g  == GrowthScore(i, sec)
        mp == MoatPolicyScore(m)
    IN  [val_score |-> v, qual_score |-> q, growth_score |-> g,
         moat_policy_score |-> mp, total_score |-> WeightedTotal(v, q, g, mp, w)]

\* The dict returned at lines 209-216, values in hundredths.
ScoreDict(l, adj) ==
    [Total      |-> Round2(ClampTotal(l.total_score, adj), TU),
     Valuation  |-> Round2(l.val_score, SU),
     Quality    |-> Round2(l.qual_score, SU),
     Growth     |-> Round2(l.growth_score, SU),
     MoatPolicy |-> Round2(l.moat_policy_score, SU),
     Adjustment |-> adj]

\* The whole function, for its callers: <<>> is None.
calculate_2026_score(i, sec, m, avgd, w) ==
    IF DOMAIN i = {} THEN <<>>
    ELSE <<ScoreDict(Locals(i, sec, m, avgd, w), FinalAdjustment(i, sec))>>

-----------------------------------------------------------------------------
(* Inputs of the scoring specification *)

MetricKeys == {"forwardPE", "returnOnEquity", "freeCashflow", "grossMargins",
               "operatingMargins", "revenueGrowth"}

InfoKeys == MetricKeys \cup {"symbol"}

\* Sample values per key; each set straddles the thresholds the code tests.
\* The value of "symbol" is never read by the scoring (line 149 only).
KeyValues ==
    [forwardPE        |-> {-100, 0, 100, 224, 225, 1500},
     returnOnEquity   |-> {15, 30},
     freeCashflow     |-> {-1, 1},
     grossMargins     |-> {60, 90},
     operatingMargins |-> {40},
     revenueGrowth    |-> {15, 30, 50},
     symbol           |-> {0}]

\* Marks a key left out while the records are enumerated.
Absent == 0 - 999999

Opt(k) == KeyValues[k] \cup {Absent}

MakeInfo(all) == [k \in {x \in InfoKeys : all[x] # Absent} |-> all[k]]

\* The empty dict, and every record that carries "symbol" and any subset of
\* the metric keys (a key holding None reads like a missing key at lines
\* 152-182, so None values are not enumerated apart).
InfoRecords ==
    { MakeInfo([forwardPE |-> pe, returnOnEquity |-> roe, freeCashflow |-> fcf,
                grossMargins |-> gm, operatingMargins |-> op, revenueGrowth |-> rev,
                symbol |-> 0]) :
        pe \in Opt("forwardPE"), roe \in Opt("returnOnEquity"),
        fcf \in Opt("freeCashflow"), gm \in Opt("grossMargins"),
        op \in Opt("operatingMargins"), rev \in Opt("revenueGrowth") }
    \cup { <<>> }

\* The manual_scores arguments: slider pairs, and a dict with no key.
ManualInputs == { [Policy |-> 50, Moat |-> 50], [Policy |-> 100, Moat |-> 70], <<>> }

\* sector_avg_data: the callers' {"avg_fwd_pe": 25}, a dict without the key
\* (the default 25 of line 153), and another average.
AvgInputs == { [avg_fwd_pe |-> 25], <<>>, [avg_fwd_pe |-> 20] }

\* Weights an AI reply may suggest (the prompt asks for a sum of 1.0, nothing
\* enforces it): larger than 1, negative, not summing to 1.
AIWeights == { W(150, 150, 150, 150), W(0 - 50, 0, 50, 100), W(50, 50, 50, 50) }

WeightInputs(sec) == { SECTOR_CONFIG[sec] } \cup AIWeights

ScoreInit ==
    /\ info \in InfoRecords
    /\ sector \in SectorNames
    /\ manual_in \in ManualInputs
    /\ sector_avg_data \in AvgInputs
    /\ stock_weights \in WeightInputs(sector)
    /\ score_pc = "call"
    /\ loc = <<>>
    /\ scores = <<>>

\* lines 146-147: an empty record returns None
ScoreReturnNone ==
    /\ score_pc = "call"
    /\ DOMAIN info = {}
    /\ score_pc' = "done"
    /\ scores' = <<>>
    /\ UNCHANGED <<info, sector, manual_in, sector_avg_data, stock_weights, loc>>
    /\ UNCHANGED nonScoreVars

\* lines 149-200: the four component scores and their weighted sum
ScoreComponents ==
    /\ score_pc = "call"
    /\ DOMAIN info # {}
    /\ loc' = <<Locals(info, sector, manual_in, sector_avg_data, stock_weights)>>
    /\ score_pc' = "weighted"
    /\ UNCHANGED <<info, sector, manual_in, sector_avg_data, stock_weights, scores>>
    /\ UNCHANGED nonScoreVars

\* lines 202-216: the adjustment, the clamp and the returned dict
ScoreFinal ==
    /\ score_pc = "weighted"
    /\ scores' = <<ScoreDict(loc[1], FinalAdjustment(info, sector))>>
    /\ score_pc' = "done"
    /\ UNCHANGED <<info, sector, manual_in, sector_avg_data, stock_weights, loc>>
    /\ UNCHANGED nonScoreVars

ScoreNext == ScoreReturnNone \/ ScoreComponents \/ ScoreFinal

\* The values the scoring variables keep while another specification runs.
ScoreIdle ==
    /\ info = <<>>
    /\ sector = "Mag7"
    /\ manual_in = <<>>
    /\ sector_avg_data = <<>>
    /\ stock_weights = SECTOR_CONFIG["Mag7"]
    /\ score_pc = "idle"
    /\ loc = <<>>
    /\ scores = <<>>

StoreIdle ==
    /\ store_pc = "idle"
    /\ loaded = JNull

FetchIdle ==
    /\ retry_count = 0
    /\ fetch_attempt = 0
    /\ fetch_pc = "idle"
    /\ fetch_hist = <<>>
    /\ fetch_sleeps = <<>>
    /\ fetch_ret = <<>>

GemIdle ==
    /\ max_retries = 0
    /\ gem_attempt = 0
    /\ delay = 0
    /\ gem_pc = "idle"
    /\ gem_hist = <<>>
    /\ gem_sleeps = <<>>
    /\ gem_ret = <<>>

DispIdle ==
    /\ fetched = <<>>
    /\ disp_pc = "idle"
    /\ disp_main = <<>>
    /\ disp_rows = <<>>
    /\ disp_failed = <<>>

UIIdle ==
    /\ weights = EmptyDict
    /\ stock_insights = EmptyDict
    /\ ai_adjusted = EmptyDict
    /\ selected_sector = "Mag7"
    /\ selected_stock = "AAPL"
    /\ batch_sector = "Mag7"
    /\ slider_p = 50
    /\ slider_m = 50
    /\ page = "idle"
    /\ event = "idle"
    /\ user_set = <<>>
    /\ runs = 0
    /\ batch_results = <<>>

SessionIdle ==
    /\ persistent = <<>>
    /\ manual_scores = EmptyDict
    /\ UIIdle

ScoreSpecInit == ScoreInit /\ SessionIdle /\ StoreIdle /\ FetchIdle /\ GemIdle /\ DispIdle

SpecScore == ScoreSpecInit /\ [][ScoreNext]_vars

\* the largest forward PE tried by the valuation runs, in tenths
MaxPE10 == 260

\* The same function on a dense range of forward PE values (negative, zero,
\* and every tenth up to MaxPE10), the other metrics left out, with the
\* sector's default weights and the sliders' default pair.
ValuationInit ==
    /\ info \in { <<>> } \cup { [symbol |-> 0, forwardPE |-> pe] : pe \in (0 - 1)..MaxPE10 }
    /\ sector \in SectorNames
    /\ manual_in = [Policy |-> 50, Moat |-> 50]
    /\ sector_avg_data \in AvgInputs
    /\ stock_weights = SECTOR_CONFIG[sector]
    /\ score_pc = "call"
    /\ loc = <<>>
    /\ scores = <<>>

ValuationSpecInit == ValuationInit /\ SessionIdle /\ StoreIdle /\ FetchIdle /\ GemIdle /\ DispIdle

SpecValuation == ValuationSpecInit /\ [][ScoreNext]_vars

-----------------------------------------------------------------------------
(* One round of the storage helpers on a manual_scores mapping *)

\* the largest number of tickers in a stored mapping
MaxEntries == 2

\* Scores to store: the slider's range ends, its default, and numbers a
\* slider never yields (the helpers take any integer).
StoreValues == { 0 - 7, 0, 50, 100, 1234 }

ManualEntry(pol, moat) == JDict(<<Item("Policy", JNum(pol)), Item("Moat", JNum(moat))>>)

\* every mapping of at most MaxEntries distinct tickers, in every insertion order
StoreMappings ==
    { JDict([i \in 1..n |-> Item(ks[i], ManualEntry(vs[i][1], vs[i][2]))]) :
        <<n, ks, vs>> \in
          UNION { { <<n, ks, vs>> :
                      ks \in { f \in [1..n -> Stocks] :
                                 \A a, b \in 1..n : a # b => f[a] # f[b] },
                      vs \in [1..n -> StoreValues \X StoreValues] }
                  : n \in 0..Min(MaxEntries, Cardinality(Stocks)) } }

StoreInit ==
    /\ manual_scores \in StoreMappings
    /\ persistent = <<>>
    /\ store_pc = "start"
    /\ loaded = JNull

\* save_to_storage("manual_scores", m)
StoreSave ==
    /\ store_pc = "start"
    /\ persistent' = save_to_storage(persistent, "manual_scores", manual_scores)
    /\ store_pc' = "saved"
    /\ UNCHANGED <<manual_scores, loaded>>
    /\ UNCHANGED nonStoreVars

\* load_from_storage("manual_scores")
StoreLoad ==
    /\ store_pc = "saved"
    /\ loaded' = load_from_storage(persistent, "manual_scores", JNull)
    /\ store_pc' = "loaded"
    /\ UNCHANGED <<manual_scores, persistent>>
    /\ UNCHANGED nonStoreVars

\* save_to_storage("manual_scores", <the reloaded mapping>)
StoreResave ==
    /\ store_pc = "loaded"
    /\ persistent' = save_to_storage(persistent, "manual_scores", loaded)
    /\ store_pc' = "resaved"
    /\ UNCHANGED <<manual_scores, loaded>>
    /\ UNCHANGED nonStoreVars

StoreNext == StoreSave \/ StoreLoad \/ StoreResave

StoreSpecInit == StoreInit /\ UIIdle /\ ScoreIdle /\ FetchIdle /\ GemIdle /\ DispIdle

SpecStore == StoreSpecInit /\ [][StoreNext]_vars

-----------------------------------------------------------------------------
(* get_stock_data: lines 110-134 *)

\* the largest retry_count tried (the default of line 110 is 3)
MaxRetryCount == 3

\* What one provider query gives: an exception (-1), or an info record of n
\* fields; line 118 accepts a record of more than 5 fields.
FieldCounts == {0, 5, 6}
FetchOutcomes == {0 - 1} \cup FieldCounts

\* line 118: info and len(info) > 5
Complete(o) == o # 0 /\ o > 5

FetchLast == fetch_hist[Len(fetch_hist)]

FetchInit ==
    /\ retry_count \in 0..MaxRetryCount
    /\ fetch_attempt = 0
    /\ fetch_pc = "loop"
    /\ fetch_hist = <<>>
    /\ fetch_sleeps = <<>>
    /\ fetch_ret = <<>>

\* line 112 and lines 114-115: the loop goes on and the provider is queried
FetchQuery ==
    /\ fetch_pc = "loop"
    /\ fetch_attempt < retry_count
    /\ \E o \in FetchOutcomes : fetch_hist' = Append(fetch_hist, o)
    /\ fetch_pc' = "got"
    /\ UNCHANGED <<retry_count, fetch_attempt, fetch_sleeps, fetch_ret>>
    /\ UNCHANGED nonFetchVars

\* lines 118-119
FetchReturnInfo ==
    /\ fetch_pc = "got"
    /\ FetchLast >= 0 /\ Complete(FetchLast)
    /\ fetch_ret' = <<[attempt |-> fetch_attempt, fields |-> FetchLast]>>
    /\ fetch_pc' = "done"
    /\ UNCHANGED <<retry_count, fetch_attempt, fetch_hist, fetch_sleeps>>
    /\ UNCHANGED nonFetchVars

\* whether the code sleeps and tries again: attempt < retry_count - 1
MayRetryAlways(a, n) == TRUE
MayRetry(a, n) == a < n - 1

\* time.sleep(1), then the next iteration
SleepAndRetry ==
    /\ fetch_sleeps' = Append(fetch_sleeps, [secs |-> 1, after |-> Len(fetch_hist)])
    /\ fetch_attempt' = fetch_attempt + 1
    /\ fetch_pc' = "loop"
    /\ UNCHANGED <<retry_count, fetch_hist, fetch_ret>>
    /\ UNCHANGED nonFetchVars

ReturnNone ==
    /\ fetch_ret' = <<>>
    /\ fetch_pc' = "done"
    /\ UNCHANGED <<retry_count, fetch_attempt, fetch_hist, fetch_sleeps>>
    /\ UNCHANGED nonFetchVars

\* lines 120-123: incomplete data, not the last attempt
FetchIncompleteRetry ==
    /\ fetch_pc = "got"
    /\ FetchLast >= 0 /\ ~Complete(FetchLast)
    /\ MayRetry(fetch_attempt, retry_count)
    /\ SleepAndRetry

\* lines 124-126: incomplete data on the last attempt
FetchIncompleteGiveUp ==
    /\ fetch_pc = "got"
    /\ FetchLast >= 0 /\ ~Complete(FetchLast)
    /\ ~MayRetry(fetch_attempt, retry_count)
    /\ ReturnNone

\* lines 128-131: an exception, not the last attempt
FetchRaiseRetry ==
    /\ fetch_pc = "got"
    /\ FetchLast < 0
    /\ MayRetry(fetch_attempt, retry_count)
    /\ SleepAndRetry

\* lines 132-133: an exception on the last attempt
FetchRaiseGiveUp ==
    /\ fetch_pc = "got"
    /\ FetchLast < 0
    /\ ~MayRetry(fetch_attempt, retry_count)
    /\ ReturnNone

\* line 134: the loop ran out (only when retry_count <= 0)
FetchLoopEnd ==
    /\ fetch_pc = "loop"
    /\ ~(fetch_attempt < retry_count)
    /\ ReturnNone

FetchNext ==
    \/ FetchQuery
    \/ FetchReturnInfo
    \/ FetchIncompleteRetry
    \/ FetchIncompleteGiveUp
    \/ FetchRaiseRetry
    \/ FetchRaiseGiveUp
    \/ FetchLoopEnd

FetchSpecInit == FetchInit /\ ScoreIdle /\ SessionIdle /\ StoreIdle /\ GemIdle /\ DispIdle

\* The interpreter runs the function to its end: a step that can be taken is
\* taken (a provider query returns or raises, time.sleep(1) returns).
SpecFetch == FetchSpecInit /\ [][FetchNext]_vars /\ WF_vars(FetchNext)

-----------------------------------------------------------------------------
(* call_gemini_with_retry: lines 222-255 *)

\* MAX_RETRIES (line 10), the default of max_retries
MAX_RETRIES == 3

\* how far above MAX_RETRIES the max_retries argument is tried
ExtraRetries == 1

\* suggested_weights as the dict json.loads builds
WDict(w) ==
    JDict(<<Item("Valuation", JNum(w.Valuation)), Item("Quality", JNum(w.Quality)),
            Item("Growth", JNum(w.Growth)), Item("MoatPolicy", JNum(w.MoatPolicy))>>)

\* a reply in the format the prompt asks for (lines 279-284)
Insight(sentiment, w) ==
    JDict(<<Item("sentiment", JStr(sentiment)), Item("summary", JStr("summary")),
            Item("suggested_weights", WDict(w)), Item("reason", JStr("reason"))>>)

\* a reply that is valid JSON but lacks suggested_weights
InsightNoWeights ==
    JDict(<<Item("sentiment", JStr("neutral")), Item("summary", JStr("summary"))>>)

\* markdown fences (three backquotes, with or without the word json) and line
\* breaks around the JSON of a response
FenceJson == Tok("f", "FENCE_JSON")
Fence     == Tok("f", "FENCE")
NL        == Tok("ws", "NL")

\* line 232: both fences are replaced by nothing, then the text is stripped
StripWs(text) ==
    LET keep == { i \in 1..Len(text) : text[i].k # "ws" }
    IN  IF keep = {} THEN <<>>
        ELSE LET lo == CHOOSE i \in keep : \A j \in keep : i <= j
                 hi == CHOOSE i \in keep : \A j \in keep : i >= j
             IN  SubSeq(text, lo, hi)
CleanJson(text) == StripWs(SelectSeq(text, LAMBDA tk : tk.k # "f"))

\* the response texts tried
GemTexts ==
    { <<>>,
      <<FenceJson, NL, Fence>>,
      <<P("{"), Tok("s", "sentiment")>>,
      <<P("{"), P("}")>>,
      Dumps(Insight("neutral", W(40, 30, 20, 10))),
      <<FenceJson, NL>> \o Dumps(Insight("good", W(50, 50, 50, 50))) \o <<NL, Fence>>,
      Dumps(InsightNoWeights) }

\* What one API call gives: an exception raised by generate_content or
\* response.text, or a response text; clean and parsed are what lines 232
\* and 239 compute from the text (parsed = <<>> when json.loads raises).
Raised == [raised |-> TRUE, text |-> <<>>, clean |-> <<>>, parsed |-> <<>>]
Reply(t) ==
    [raised |-> FALSE, text |-> t, clean |-> CleanJson(t), parsed |-> Loads(CleanJson(t))]
GemOutcomes == { Raised } \cup { Reply(t) : t \in GemTexts }

\* lines 231-239 raise: the call itself, the empty-content check, json.loads
ApiRaised(o)   == o.raised
EmptyReply(o)  == ~o.raised /\ o.clean = <<>>
Unparseable(o) == ~o.raised /\ o.clean # <<>> /\ o.parsed = <<>>
GemFailed(o) == ApiRaised(o) \/ EmptyReply(o) \/ Unparseable(o)

GemLast == gem_hist[Len(gem_hist)]

GemInit ==
    /\ max_retries \in 0..(MAX_RETRIES + ExtraRetries)
    /\ gem_attempt = 0
    /\ delay = 2
    /\ gem_pc = "loop"
    /\ gem_hist = <<>>
    /\ gem_sleeps = <<>>
    /\ gem_ret = <<>>

\* line 225 and lines 228-232: the loop goes on and the API is called
GemCall ==
    /\ gem_pc = "loop"
    /\ gem_attempt < max_retries
    /\ \E o \in GemOutcomes : gem_hist' = Append(gem_hist, o)
    /\ gem_pc' = "got"
    /\ UNCHANGED <<max_retries, gem_attempt, delay, gem_sleeps, gem_ret>>
    /\ UNCHANGED nonGemVars

\* lines 239-242: the parsed JSON is returned at once
GemReturnInsight ==
    /\ gem_pc = "got"
    /\ ~GemFailed(GemLast)
    /\ gem_ret' = GemLast.parsed
    /\ gem_pc' = "done"
    /\ UNCHANGED <<max_retries, gem_attempt, delay, gem_hist, gem_sleeps>>
    /\ UNCHANGED nonGemVars

\* line 249: delay *= 2
NextDelayLinear(d) == d + 2
NextDelay(d) == d * 2

\* lines 244-249: any exception before the last attempt: sleep, double the delay
GemFailRetry ==
    /\ gem_pc = "got"
    /\ GemFailed(GemLast)
    /\ gem_attempt < max_retries - 1
    /\ gem_sleeps' = Append(gem_sleeps, delay)
    /\ delay' = NextDelay(delay)
    /\ gem_attempt' = gem_attempt + 1
    /\ gem_pc' = "loop"
    /\ UNCHANGED <<max_retries, gem_hist, gem_ret>>
    /\ UNCHANGED nonGemVars

\* lines 250-254: any exception on the last attempt
GemFailGiveUp ==
    /\ gem_pc = "got"
    /\ GemFailed(GemLast)
    /\ ~(gem_attempt < max_retries - 1)
    /\ gem_ret' = <<>>
    /\ gem_pc' = "done"
    /\ UNCHANGED <<max_retries, gem_attempt, delay, gem_hist, gem_sleeps>>
    /\ UNCHANGED nonGemVars

\* line 255: the loop ran out (only when max_retries <= 0)
GemLoopEnd ==
    /\ gem_pc = "loop"
    /\ ~(gem_attempt < max_retries)
    /\ gem_ret' = <<>>
    /\ gem_pc' = "done"
    /\ UNCHANGED <<max_retries, gem_attempt, delay, gem_hist, gem_sleeps>>
    /\ UNCHANGED nonGemVars

GemNext == GemCall \/ GemReturnInsight \/ GemFailRetry \/ GemFailGiveUp \/ GemLoopEnd

GemSpecInit == GemInit /\ ScoreIdle /\ SessionIdle /\ StoreIdle /\ FetchIdle /\ DispIdle

\* The interpreter runs the function to its end (an API call returns or
\* raises, time.sleep returns).
SpecGemini == GemSpecInit /\ [][GemNext]_vars /\ WF_vars(GemNext)

-----------------------------------------------------------------------------
(* The Streamlit session: lines 356-500.                                   *)
(* One action is one script run, started by one interaction of the user.  *)
(* Callbacks run before the script body; a run that raises stops there,   *)
(* its changes to st.session_state stay, the widgets it did not reach are *)
(* not on the page until a later run renders them, and their values are   *)
(* kept.                                                                  *)

\* script runs explored after the first one
MaxRuns == 3

\* the sliders' range (lines 445-446, 453-454) and the default score (line 426)
SliderMin == 0
SliderMax == 100
DefaultScore == 50

\* slider positions tried
SliderValues == { SliderMin, DefaultScore, SliderMax }

\* line 424
current_stock == selected_stock

\* lines 519 and 556: the weights a stock is scored with, whatever the sector
\* it is displayed under
WeightsUsed(stock) == DGet(weights, stock)

\* lines 367-369 and 488-490: each stock gets the default weights of every
\* sector that lists it, in the order of SECTORS, so the last one stays
RECURSIVE FillWeights(_, _, _)
FillWeights(d, si, ki) ==
    IF si > Len(SectorOrder) THEN d
    ELSE LET sec == SectorOrder[si]
         IN  IF ki > Len(SECTORS[sec]) THEN FillWeights(d, si + 1, 1)
             ELSE FillWeights(DSet(d, SECTORS[sec][ki], WDict(SECTOR_CONFIG[sec])), si, ki + 1)

\* lines 386-388 and 488-491: every stock's flag set to False
RECURSIVE FillFlags(_, _, _)
FillFlags(d, si, ki) ==
    IF si > Len(SectorOrder) THEN d
    ELSE LET sec == SectorOrder[si]
         IN  IF ki > Len(SECTORS[sec]) THEN FillFlags(d, si + 1, 1)
             ELSE FillFlags(DSet(d, SECTORS[sec][ki], JBool(FALSE)), si, ki + 1)

\* lines 361-396: each mapping is the stored one when it loads truthy
LoadedOr(p, key, fresh) ==
    LET l == load_from_storage(p, key, JNull)
    IN  IF Truthy(l) THEN l ELSE fresh

\* lines 425-426: the selected stock gets the default pair on first selection
EnsureEntry(ms, stock) ==
    IF DHas(ms, stock) THEN ms
    ELSE DSet(ms, stock, ManualEntry(DefaultScore, DefaultScore))

PolicyOf(ms, stock) == DGet(DGet(ms, stock), "Policy").v
MoatOf(ms, stock)   == DGet(DGet(ms, stock), "Moat").v

\* manual_scores[stock][field] = v
SetFieldAllTickers(ms, stock, field, v) ==
    JDict([i \in 1..Len(ms.v) |-> Item(ms.v[i].k, DSet(ms.v[i].x, field, JNum(v)))])
SetField(ms, stock, field, v) == DSet(ms, stock, DSet(DGet(ms, stock), field, JNum(v)))

\* lines 429-431 and 433-435, without the save: v is the slider's new value
UpdatePolicyWrongField(ms, stock, v) == SetField(ms, stock, "Moat", v)
update_policy_score(ms, stock, v) == SetField(ms, stock, "Policy", v)
update_moat_score(ms, stock, v)   == SetField(ms, stock, "Moat", v)

\* what get_ai_market_insight returns: None, or any JSON call_gemini_with_retry parsed
AnalysisReturns == { <<>> } \cup { o.parsed : o \in GemOutcomes }

HasKey(x, k) == x.t = "dict" /\ DHas(x, k)

SaveAINoFlags(p, w, ins, adj) ==
    save_to_storage(save_to_storage(p, "weights", w), "stock_insights", ins)
SaveAI(p, w, ins, adj) ==
    save_to_storage(save_to_storage(save_to_storage(p, "weights", w),
                                    "stock_insights", ins), "ai_adjusted", adj)

\* The AI part of the session while a handler runs; raised tells that the
\* handler raised and the script run stopped.
AIState(w, ins, adj, p, raised) ==
    [w |-> w, ins |-> ins, adj |-> adj, p |-> p, raised |-> raised]

\* lines 470-482: the insight is stored before its suggested_weights are read
AnalyzeSingle(st, stock, r) ==
    IF r = <<>> \/ ~Truthy(r[1]) THEN st
    ELSE LET ins1 == DSet(st.ins, stock, r[1])
         IN  IF ~HasKey(r[1], "suggested_weights")
             THEN AIState(st.w, ins1, st.adj, st.p, TRUE)
             ELSE LET w1   == DSet(st.w, stock, DGet(r[1], "suggested_weights"))
                      adj1 == DSet(st.adj, stock, JBool(TRUE))
                  IN  AIState(w1, ins1, adj1, SaveAI(st.p, w1, ins1, adj1), FALSE)

\* lines 312-346 for one stock: o.data tells whether get_stock_data gave an
\* info, o.ret is what get_ai_market_insight returned; suggested_weights are
\* read (line 330) before anything is stored
AnalyzeBatchOne(st, stock, o) ==
    IF ~o.data THEN st
    ELSE IF o.ret = <<>> \/ ~Truthy(o.ret[1]) THEN st
    ELSE IF ~HasKey(o.ret[1], "suggested_weights")
         THEN AIState(st.w, st.ins, st.adj, st.p, TRUE)
         ELSE LET w1   == DSet(st.w, stock, DGet(o.ret[1], "suggested_weights"))
                  ins1 == DSet(st.ins, stock, o.ret[1])
                  adj1 == DSet(st.adj, stock, JBool(TRUE))
              IN  AIState(w1, ins1, adj1, SaveAI(st.p, w1, ins1, adj1), FALSE)

BatchOutcomes ==
    { [data |-> FALSE, ret |-> <<>>] } \cup { [data |-> TRUE, ret |-> r] : r \in AnalysisReturns }

\* one outcome for each stock of a sector
BatchInputs ==
    UNION { [1..Len(SECTORS[s]) -> BatchOutcomes] : s \in UISectors }

\* lines 308-351: the stocks of the sector in list order, until one raises
RECURSIVE batch_analyze_sector(_, _, _, _)
batch_analyze_sector(st, stocks, outs, i) ==
    IF i > Len(stocks) \/ st.raised THEN st
    ELSE batch_analyze_sector(AnalyzeBatchOne(st, stocks[i], outs[i]), stocks, outs, i + 1)

\* line 330 raises: a truthy insight without suggested_weights
BatchRaises(o) ==
    o.data /\ o.ret # <<>> /\ Truthy(o.ret[1]) /\ ~HasKey(o.ret[1], "suggested_weights")

\* lines 315, 328-332 and 345: the entry results gets for one stock, ok when
\* it has no "error" key
BatchEntry(stock, o) ==
    [stock |-> stock,
     ok    |-> o.data /\ o.ret # <<>> /\ Truthy(o.ret[1])]

\* the results dict of lines 303-354 in insertion order, as far as the loop
\* gets
RECURSIVE BatchEntries(_, _, _)
BatchEntries(stocks, outs, i) ==
    IF i > Len(stocks) \/ BatchRaises(outs[i]) THEN <<>>
    ELSE <<BatchEntry(stocks[i], outs[i])>> \o BatchEntries(stocks, outs, i + 1)

\* no batch returned in this run; otherwise batch_results is <<results>>
NoBatch == <<>>

NeverSet == [v |-> DefaultScore, n |-> 0]

\* The session after its first script run: lines 361-396 on an empty
\* storage, the selectboxes at their first option, lines 425-458.
UIInit ==
    /\ persistent = <<>>
    /\ weights = LoadedOr(persistent, "weights", FillWeights(EmptyDict, 1, 1))
    /\ stock_insights = LoadedOr(persistent, "stock_insights", EmptyDict)
    /\ ai_adjusted = LoadedOr(persistent, "ai_adjusted", FillFlags(EmptyDict, 1, 1))
    /\ selected_sector = SectorOrder[1]
    /\ selected_stock = SECTORS[SectorOrder[1]][1]
    /\ batch_sector = SectorOrder[1]
    /\ manual_scores = EnsureEntry(LoadedOr(persistent, "manual_scores", EmptyDict),
                                   SECTORS[SectorOrder[1]][1])
    /\ slider_p = PolicyOf(manual_scores, selected_stock)
    /\ slider_m = MoatOf(manual_scores, selected_stock)
    /\ page = "all"
    /\ event = "start"
    /\ user_set = [t \in Stocks |-> [Policy |-> NeverSet, Moat |-> NeverSet]]
    /\ runs = 0
    /\ batch_results = NoBatch

\* the selection widgets and the sliders are on the page
SidebarRendered == page \in {"all", "analyze"}

\* a run that reaches the end of the script
Completes(ev) ==
    /\ page' = "all"
    /\ event' = ev
    /\ runs' = runs + 1
    /\ batch_results' = NoBatch

\* lines 421-458 for the stock now selected
RenderSliders ==
    /\ manual_scores' = EnsureEntry(manual_scores, selected_stock')
    /\ slider_p' = PolicyOf(manual_scores', selected_stock')
    /\ slider_m' = MoatOf(manual_scores', selected_stock')

\* The user picks another sector (line 420); the stock selectbox, whose
\* options change, starts at its first option (line 421).
SelectSector(s) ==
    /\ runs < MaxRuns
    /\ SidebarRendered
    /\ s # selected_sector
    /\ selected_sector' = s
    /\ selected_stock' = SECTORS[s][1]
    /\ RenderSliders
    /\ Completes("select_sector")
    /\ UNCHANGED <<persistent, weights, stock_insights, ai_adjusted, batch_sector, user_set>>
    /\ UNCHANGED nonUIVars

\* The user picks another stock of the sector (line 421).
SelectStock(t) ==
    /\ runs < MaxRuns
    /\ SidebarRendered
    /\ t \in StocksOf(selected_sector)
    /\ t # selected_stock
    /\ selected_stock' = t
    /\ RenderSliders
    /\ Completes("select_stock")
    /\ UNCHANGED <<persistent, weights, stock_insights, ai_adjusted, selected_sector,
                   batch_sector, user_set>>
    /\ UNCHANGED nonUIVars

\* The user moves the Policy slider to v: update_policy_score runs with the
\* current_stock of the run that drew the slider, then the script.
SetPolicy(v) ==
    /\ runs < MaxRuns
    /\ SidebarRendered
    /\ v # slider_p
    /\ slider_p' = v
    /\ manual_scores' = EnsureEntry(update_policy_score(manual_scores, current_stock, v),
                                    selected_stock)
    /\ persistent' = save_to_storage(persistent, "manual_scores",
                                     update_policy_score(manual_scores, current_stock, v))
    /\ user_set' = [user_set EXCEPT ![current_stock]["Policy"] = [v |-> v, n |-> @.n + 1]]
    /\ Completes("policy")
    /\ UNCHANGED <<weights, stock_insights, ai_adjusted, selected_sector, selected_stock,
                   batch_sector, slider_m>>
    /\ UNCHANGED nonUIVars

\* The user moves the Moat slider to v: update_moat_score, then the script.
SetMoat(v) ==
    /\ runs < MaxRuns
    /\ SidebarRendered
    /\ v # slider_m
    /\ slider_m' = v
    /\ manual_scores' = EnsureEntry(update_moat_score(manual_scores, current_stock, v),
                                    selected_stock)
    /\ persistent' = save_to_storage(persistent, "manual_scores",
                                     update_moat_score(manual_scores, current_stock, v))
    /\ user_set' = [user_set EXCEPT ![current_stock]["Moat"] = [v |-> v, n |-> @.n + 1]]
    /\ Completes("moat")
    /\ UNCHANGED <<weights, stock_insights, ai_adjusted, selected_sector, selected_stock,
                   batch_sector, slider_p>>
    /\ UNCHANGED nonUIVars

\* The user picks another sector for the batch (line 405).
SelectBatchSector(s) ==
    /\ runs < MaxRuns
    /\ page \in {"all", "analyze", "batch"}
    /\ s # batch_sector
    /\ batch_sector' = s
    /\ Completes("select_batch")
    /\ UNCHANGED <<persistent, manual_scores, weights, stock_insights, ai_adjusted,
                   selected_sector, selected_stock, slider_p, slider_m, user_set>>
    /\ UNCHANGED nonUIVars

\* The user presses the single-stock analysis button (lines 461-482); r is
\* what get_ai_market_insight returns.
AnalyzeCurrent(r) ==
    /\ runs < MaxRuns
    /\ SidebarRendered
    /\ LET a == AnalyzeSingle(AIState(weights, stock_insights, ai_adjusted, persistent, FALSE),
                              selected_stock, r)
       IN  /\ weights' = a.w
           /\ stock_insights' = a.ins
           /\ ai_adjusted' = a.adj
           /\ persistent' = a.p
           /\ page' = IF a.raised THEN "analyze" ELSE "all"
    /\ event' = "analyze"
    /\ runs' = runs + 1
    /\ batch_results' = NoBatch
    /\ UNCHANGED <<manual_scores, selected_sector, selected_stock, batch_sector,
                   slider_p, slider_m, user_set>>
    /\ UNCHANGED nonUIVars

\* The user presses the batch button (lines 407-416); outs is what the data
\* fetch and the analysis give for each stock of the batch sector.
BatchAnalyze(outs) ==
    /\ runs < MaxRuns
    /\ Len(outs) = Len(SECTORS[batch_sector])
    /\ page \in {"all", "analyze", "batch"}
    /\ LET b == batch_analyze_sector(
                    AIState(weights, stock_insights, ai_adjusted, persistent, FALSE),
                    SECTORS[batch_sector], outs, 1)
       IN  /\ weights' = b.w
           /\ stock_insights' = b.ins
           /\ ai_adjusted' = b.adj
           /\ persistent' = b.p
           /\ page' = IF b.raised THEN "batch" ELSE "all"
           /\ batch_results' = IF b.raised THEN NoBatch
                              ELSE <<BatchEntries(SECTORS[batch_sector], outs, 1)>>
    /\ event' = "batch"
    /\ runs' = runs + 1
    /\ UNCHANGED <<manual_scores, selected_sector, selected_stock, batch_sector,
                   slider_p, slider_m, user_set>>
    /\ UNCHANGED nonUIVars

\* The user presses the clear button (lines 486-500): the reset, the three
\* saves, then st.rerun() and a whole run of the script.
ClearAI ==
    /\ runs < MaxRuns
    /\ page = "all"
    /\ weights' = FillWeights(weights, 1, 1)
    /\ ai_adjusted' = FillFlags(ai_adjusted, 1, 1)
    /\ stock_insights' = EmptyDict
    /\ persistent' = SaveAI(persistent, weights', stock_insights', ai_adjusted')
    /\ Completes("clear")
    /\ UNCHANGED <<manual_scores, selected_sector, selected_stock, batch_sector,
                   slider_p, slider_m, user_set>>
    /\ UNCHANGED nonUIVars

Next ==
    \/ \E s \in UISectors : SelectSector(s)
    \/ \E t \in Stocks : SelectStock(t)
    \/ \E v \in SliderValues : SetPolicy(v)
    \/ \E v \in SliderValues : SetMoat(v)
    \/ \E s \in UISectors : SelectBatchSector(s)
    \/ \E r \in AnalysisReturns : AnalyzeCurrent(r)
    \/ \E outs \in BatchInputs : BatchAnalyze(outs)
    \/ ClearAI

Init == UIInit /\ ScoreIdle /\ StoreIdle /\ FetchIdle /\ GemIdle /\ DispIdle

Spec == Init /\ [][Next]_vars

-----------------------------------------------------------------------------
(* The display part of a script run: lines 507-584, for a session whose    *)
(* stock_insights is empty (lines 503-505 show nothing).                   *)

\* the infos get_stock_data may give: one with metrics, one without
DispInfos ==
    { [symbol |-> 0, forwardPE |-> 224, returnOnEquity |-> 30, revenueGrowth |-> 30],
      [symbol |-> 0] }

\* get_stock_data(s): None, or an info; st.cache_data gives every call of
\* one run the same value for the same symbol
DispFetches == { <<>> } \cup { <<i>> : i \in DispInfos }

\* lines 511 and 547: if info
HasDataAlways(r) == TRUE
HasData(r) == r # <<>> /\ DOMAIN r[1] # {}

\* the info argument of lines 515 and 552; None reads as empty at line 146
InfoOf(r) == IF r = <<>> THEN <<>> ELSE r[1]

\* the weights dict of lines 519 and 556 as the record the scoring reads
WRec(d) == [k \in WeightKeys |-> DGet(d, k).v]

\* line 512
SectorAvg == [avg_fwd_pe |-> 25]

\* line 549: manual_scores.get(s, {"Policy": 50, "Moat": 50})
ManualRec(ms, s) ==
    IF DHas(ms, s) THEN [Policy |-> PolicyOf(ms, s), Moat |-> MoatOf(ms, s)]
    ELSE [Policy |-> DefaultScore, Moat |-> DefaultScore]

\* lines 514-520
MainScores ==
    calculate_2026_score(InfoOf(fetched[selected_stock]), selected_sector,
                         [Policy |-> slider_p, Moat |-> slider_m], SectorAvg,
                         WRec(DGet(weights, selected_stock)))

\* lines 551-557
RowScores(s) ==
    calculate_2026_score(InfoOf(fetched[s]), selected_sector,
                         ManualRec(manual_scores, s), SectorAvg, WRec(DGet(weights, s)))

\* line 560: ai_adjusted.get(s, False)
IsAIAdjusted(s) == IF DHas(ai_adjusted, s) THEN Truthy(DGet(ai_adjusted, s)) ELSE FALSE

\* lines 545-573: results and failed_stocks, in the order of the sector list
RECURSIVE CompareFrom(_, _, _)
CompareFrom(stocks, i, acc) ==
    IF i > Len(stocks) THEN acc
    ELSE LET s == stocks[i]
         IN  IF HasData(fetched[s])
             THEN LET sc == RowScores(s)
                  IN  IF sc # <<>>
                      THEN CompareFrom(stocks, i + 1,
                             [acc EXCEPT !.results =
                                Append(@, [stock |-> s, total |-> sc[1].Total,
                                           ai |-> IsAIAdjusted(s),
                                           policy |-> ManualRec(manual_scores, s).Policy,
                                           moat |-> ManualRec(manual_scores, s).Moat])])
                      ELSE CompareFrom(stocks, i + 1, acc)
             ELSE CompareFrom(stocks, i + 1, [acc EXCEPT !.failed = Append(@, s)])

\* line 576: sort_values by the total, descending; equal totals keep their order
InsertRow(r, sorted) ==
    LET pos == Cardinality({ i \in 1..Len(sorted) : sorted[i].total >= r.total })
    IN  SubSeq(sorted, 1, pos) \o <<r>> \o SubSeq(sorted, pos + 1, Len(sorted))
RECURSIVE SortDesc(_)
SortDesc(rows) ==
    IF rows = <<>> THEN <<>>
    ELSE InsertRow(rows[Len(rows)], SortDesc(SubSeq(rows, 1, Len(rows) - 1)))

\* what the page shows for the selected stock
Shown(kind, total) == [kind |-> kind, total |-> total]

\* A session as a first run leaves it, with the selection, the manual pair of
\* the selected stock and the provider's answers drawn from the sets above.
DisplayInit ==
    /\ selected_sector \in UISectors
    /\ selected_stock \in StocksOf(selected_sector)
    /\ fetched \in [Stocks -> DispFetches]
    /\ manual_scores \in { JDict(<<Item(selected_stock, ManualEntry(pm[1], pm[2]))>>) :
                             pm \in { <<DefaultScore, DefaultScore>>, <<SliderMax, SliderMin>> } }
    /\ slider_p = PolicyOf(manual_scores, selected_stock)
    /\ slider_m = MoatOf(manual_scores, selected_stock)
    /\ persistent = <<>>
    /\ weights = FillWeights(EmptyDict, 1, 1)
    /\ stock_insights = EmptyDict
    /\ ai_adjusted = FillFlags(EmptyDict, 1, 1)
    /\ batch_sector = SectorOrder[1]
    /\ page = "all"
    /\ event = "start"
    /\ user_set = <<>>
    /\ runs = 0
    /\ batch_results = NoBatch
    /\ disp_pc = "start"
    /\ disp_main = <<>>
    /\ disp_rows = <<>>
    /\ disp_failed = <<>>

\* lines 582-584: no data for the selected stock, two messages and no score
DisplayFetchError ==
    /\ disp_pc = "start"
    /\ ~HasData(fetched[selected_stock])
    /\ disp_main' = Shown("fetch_error", <<>>)
    /\ disp_pc' = "done"
    /\ UNCHANGED <<fetched, disp_rows, disp_failed>>
    /\ UNCHANGED nonDispVars

\* lines 511-538 and 580-581: the score of the selected stock, or the
\* message that it could not be computed
DisplayScore ==
    /\ disp_pc = "start"
    /\ HasData(fetched[selected_stock])
    /\ IF MainScores # <<>>
       THEN /\ disp_main' = Shown("score", <<MainScores[1].Total>>)
            /\ disp_pc' = "compare"
       ELSE /\ disp_main' = Shown("score_error", <<>>)
            /\ disp_pc' = "done"
    /\ UNCHANGED <<fetched, disp_rows, disp_failed>>
    /\ UNCHANGED nonDispVars

\* lines 541-579: the sector table and the warning naming the failed stocks
DisplayCompare ==
    /\ disp_pc = "compare"
    /\ LET c == CompareFrom(SECTORS[selected_sector], 1, [results |-> <<>>, failed |-> <<>>])
       IN  /\ disp_rows' = SortDesc(c.results)
           /\ disp_failed' = c.failed
    /\ disp_pc' = "done"
    /\ UNCHANGED <<fetched, disp_main>>
    /\ UNCHANGED nonDispVars

DisplayNext == DisplayFetchError \/ DisplayScore \/ DisplayCompare

DisplaySpecInit == DisplayInit /\ ScoreIdle /\ StoreIdle /\ FetchIdle /\ GemIdle

SpecDisplay == DisplaySpecInit /\ [][DisplayNext]_vars

-----------------------------------------------------------------------------
(* Properties of calculate_2026_score, checked under SpecScore (C5 under   *)
(* SpecValuation)                                                          *)

Returned == score_pc = "done" /\ scores # <<>>

\* C1: for every non-empty info record, sector, manual pair and weight mapping
\* with the four keys (AI weights that are negative, above 1 or not summing
\* to 1 included), the returned Total lies in [0,100] (0..10000 hundredths).
C1_TotalInRange ==
    (score_pc = "done" /\ DOMAIN info # {})
        => /\ scores # <<>>
           /\ scores[1].Total >= 0
           /\ scores[1].Total <= 100 * 100

\* C1's case: AI weights above 1 push the weighted sum over 100 and the
\* returned Total is 100.
C1_Witness ==
    /\ Returned
    /\ stock_weights = W(150, 150, 150, 150)
    /\ loc[1].total_score > 100 * TU
    /\ scores[1].Total = 100 * 100

NoMetric(i) == DOMAIN i \cap MetricKeys = {}

\* C2: with no metric in the record (or an empty record), the sector's default
\* weights and the manual pair at its default, the call returns a dict whose
\* Total is the neutral 50.
C2_NoMetricTotalIs50 ==
    (/\ score_pc = "done"
     /\ NoMetric(info)
     /\ stock_weights = SECTOR_CONFIG[sector]
     /\ MoatPolicyScore(manual_in) = 50 * SU)
        => /\ scores # <<>>
           /\ scores[1].Total = 50 * 100

ValuationAt(p) == Round2(ValScore([info EXCEPT !["forwardPE"] = p], sector, sector_avg_data), SU)

\* C5: the returned Valuation lies in [0,100] and is non-increasing in the
\* forward PE: a lower positive PE never scores below, a higher one never
\* above, the same sector and sector average given (the Mag7 bonus threshold
\* at 0.9 times the average included).
C5_ValuationMonotone ==
    (Returned /\ Get(info, "forwardPE", 0) > 0)
        => /\ scores[1].Valuation >= 0
           /\ scores[1].Valuation <= 100 * 100
           /\ \A p \in 1..MaxPE10 :
                /\ p <= info["forwardPE"] => ValuationAt(p) >= scores[1].Valuation
                /\ p >= info["forwardPE"] => ValuationAt(p) <= scores[1].Valuation

\* C5's case: a Mag7 stock just below the bonus threshold (PE 22.4 against
\* 22.5) gets the bonus, and scores above the same stock at the threshold.
C5_Witness ==
    /\ Returned
    /\ sector = "Mag7"
    /\ Get(info, "forwardPE", 0) = 224
    /\ Get(sector_avg_data, "avg_fwd_pe", 25) = 25
    /\ scores[1].Valuation = 6696
    /\ ValuationAt(225) = 5556

SumW(w) == w["Valuation"] + w["Quality"] + w["Growth"] + w["MoatPolicy"]

\* sum(score_i * weight_i) / sum(weight_i), in SU units
RenormalizedAverage(l, w) == WeightedTotal(l.val_score, l.qual_score, l.growth_score,
                                           l.moat_policy_score, w) \div SumW(w)

\* C6: before the adjustment, total_score is the weighted sum of the four
\* component scores divided by the sum of the weights (compared to two
\* decimals), for every weight mapping of positive sum.
C6_RenormalizedAverage ==
    (score_pc \in {"weighted", "done"} /\ loc # <<>> /\ SumW(stock_weights) > 0)
        => Round2(loc[1].total_score, TU)
             = Round2(RenormalizedAverage(loc[1], stock_weights), SU)

\* C12: the returned Quality and Growth lie in [0,100] for every record and
\* sector, the security-sector margin bonus, the Mag7 growth bonus and the
\* energy-sector deduction included.
C12_QualityGrowthClamped ==
    Returned
        => /\ scores[1].Quality >= 0
           /\ scores[1].Quality <= 100 * 100
           /\ scores[1].Growth >= 0
           /\ scores[1].Growth <= 100 * 100

-----------------------------------------------------------------------------
(* Properties of the storage helpers, checked under SpecStore *)

\* C3: save_to_storage("manual_scores", m) then load_from_storage returns a
\* mapping equal to m, and saving the reloaded mapping leaves the stored text
\* as it was.
C3_RoundTrip ==
    [][ /\ store_pc' = "loaded" => PyEq(loaded', manual_scores')
        /\ (store_pc = "loaded" /\ store_pc' = "resaved") => persistent' = persistent ]_vars

\* C3's case: a mapping of two tickers, with a negative and a four-digit
\* score, has been saved, reloaded and saved again.
C3_Witness ==
    /\ store_pc = "resaved"
    /\ Len(manual_scores.v) = 2
    /\ DGet(manual_scores, "NVDA") = ManualEntry(0 - 7, 1234)
    /\ Loads(persistent["manual_scores"]) = <<manual_scores>>

-----------------------------------------------------------------------------
(* Properties of get_stock_data, checked under SpecFetch *)

C9_Safety ==
    \* at most retry_count provider queries
    /\ Len(fetch_hist) <= retry_count
    \* every sleep is 1 second and follows a query that another query follows
    /\ \A k \in 1..Len(fetch_sleeps) :
          fetch_sleeps[k] = [secs |-> 1, after |-> k]
    /\ Len(fetch_sleeps) <= Len(fetch_hist)
    \* no query follows one that gave more than 5 fields
    /\ \A k \in 1..(Len(fetch_hist) - 1) : ~Complete(fetch_hist[k])
    /\ fetch_pc = "done" =>
          /\ Len(fetch_sleeps) = Max(0, Len(fetch_hist) - 1)
          /\ IF fetch_hist # <<>> /\ Complete(FetchLast)
             THEN fetch_ret = <<[attempt |-> Len(fetch_hist) - 1, fields |-> FetchLast]>>
             ELSE fetch_ret = <<>> /\ Len(fetch_hist) = retry_count

\* C9: get_stock_data queries the provider at most retry_count times, returns
\* the info of the first query that gives more than 5 fields without a further
\* query, sleeps 1 second between queries only (never after the last), returns
\* None once retry_count queries have failed, and always terminates.
C9_BoundedRetry == []C9_Safety /\ <>(fetch_pc = "done")

\* C9's case: two failed queries, two sleeps, and the third query's info returned.
C9_Witness ==
    /\ fetch_pc = "done"
    /\ retry_count = 3
    /\ Len(fetch_hist) = 3
    /\ Len(fetch_sleeps) = 2
    /\ fetch_ret = <<[attempt |-> 2, fields |-> 6]>>

-----------------------------------------------------------------------------
(* Properties of call_gemini_with_retry, checked under SpecGemini *)

RECURSIVE Pow2(_)
Pow2(n) == IF n <= 0 THEN 1 ELSE 2 * Pow2(n - 1)

\* an API call that yields non-empty parseable JSON
YieldsJson(o) == ~o.raised /\ Loads(CleanJson(o.text)) # <<>>

C10_Safety ==
    \* at most max_retries API calls
    /\ Len(gem_hist) <= max_retries
    \* the sleep before the k-th retry is 2 * 2^(k-1) seconds
    /\ \A k \in 1..Len(gem_sleeps) : gem_sleeps[k] = 2 * Pow2(k - 1)
    \* no call follows one that yielded JSON
    /\ \A k \in 1..(Len(gem_hist) - 1) : ~YieldsJson(gem_hist[k])
    \* every failure met so far, of whatever kind, was followed by one sleep
    /\ gem_pc = "loop" => Len(gem_sleeps) = Len(gem_hist)
    /\ gem_pc = "done" =>
          /\ Len(gem_sleeps) = Max(0, Len(gem_hist) - 1)
          /\ IF gem_hist # <<>> /\ YieldsJson(GemLast)
             THEN gem_ret = Loads(CleanJson(GemLast.text))
             ELSE gem_ret = <<>> /\ Len(gem_hist) = max_retries

\* C10: call_gemini_with_retry calls the API at most max_retries times, sleeps
\* 2 * 2^(k-1) seconds before the k-th retry, returns the parsed JSON of the
\* first call that yields non-empty parseable JSON without a further call,
\* returns None after the max_retries-th failure without sleeping, and treats
\* an empty or unparseable response like a raised exception.
C10_ExponentialBackoff == []C10_Safety /\ <>(gem_pc = "done")

\* C10's case: an exception, an empty reply and an unparseable reply, each
\* followed by a sleep (2, 4, 8), then a fourth call whose JSON is returned.
C10_Witness ==
    /\ gem_pc = "done"
    /\ Len(gem_hist) = 4
    /\ ApiRaised(gem_hist[1]) /\ EmptyReply(gem_hist[2]) /\ Unparseable(gem_hist[3])
    /\ gem_sleeps = <<2, 4, 8>>
    /\ gem_ret = <<Insight("neutral", W(40, 30, 20, 10))>>


-----------------------------------------------------------------------------
(* Properties of the session, checked under Spec *)

Fields == {"Policy", "Moat"}

ScoreAt(ms, t, f) == DGet(DGet(ms, t), f)

\* what a new session would load as manual_scores from the persisted copy
PersistedManual(p) == load_from_storage(p, "manual_scores", EmptyDict)

\* C4: a run started by the Policy or the Moat slider changes only that field
\* of the selected ticker.  In the session every other field of every entry
\* is as before and no entry comes or goes.  In the persisted copy every
\* other field of an entry it held is as before, and an entry it did not
\* hold yet arrives with the default pair the session holds for it.
C4_SliderFrame ==
    [][ event' \in {"policy", "moat"} =>
          LET f   == IF event' = "policy" THEN "Policy" ELSE "Moat"
              old == PersistedManual(persistent)
              new == PersistedManual(persistent')
          IN  /\ DKeys(manual_scores') = DKeys(manual_scores)
              /\ \A t \in DKeys(manual_scores), g \in Fields :
                    <<t, g>> # <<current_stock, f>>
                      => ScoreAt(manual_scores', t, g) = ScoreAt(manual_scores, t, g)
              /\ DKeys(old) \subseteq DKeys(new)
              /\ DKeys(new) = DKeys(manual_scores)
              /\ \A t \in DKeys(new), g \in Fields :
                    <<t, g>> # <<current_stock, f>>
                      => ScoreAt(new, t, g) = IF DHas(old, t) THEN ScoreAt(old, t, g)
                                              ELSE JNum(DefaultScore) ]_vars

\* C4's case: the Policy slider of NVDA has just been moved to 0 while AAPL,
\* selected before, holds a Moat the user set to 100; both copies hold it.
C4_Witness ==
    /\ event = "policy"
    /\ selected_stock = "NVDA"
    /\ ScoreAt(manual_scores, "NVDA", "Policy") = JNum(SliderMin)
    /\ ScoreAt(manual_scores, "NVDA", "Moat") = JNum(DefaultScore)
    /\ ScoreAt(manual_scores, "AAPL", "Moat") = JNum(SliderMax)
    /\ ScoreAt(PersistedManual(persistent), "AAPL", "Moat") = JNum(SliderMax)

PersistedKeys == {"manual_scores", "weights"}

SessionMapping(key) == IF key = "manual_scores" THEN manual_scores ELSE weights

\* C7: at the end of every script run the persisted copy of manual_scores
\* and of weights exists and decodes to the mapping the session holds.
C7_PersistedEqualsSession ==
    \A key \in PersistedKeys :
        /\ key \in DOMAIN persistent
        /\ PyEq(load_from_storage(persistent, key, JNull), SessionMapping(key))

\* C8: every entry of manual_scores holds a Policy and a Moat, each an integer
\* of 0..100, the one the user set last for that ticker and dimension, or 50
\* when the user never set it.
C8_ManualScoresLastWrite ==
    \A t \in DKeys(manual_scores) :
        LET e == DGet(manual_scores, t)
        IN  /\ e.t = "dict"
            /\ DKeys(e) = Fields
            /\ \A f \in Fields :
                  /\ DGet(e, f).t = "num"
                  /\ DGet(e, f).v \in SliderMin..SliderMax
                  /\ DGet(e, f).v = user_set[t][f].v
                  /\ user_set[t][f].n = 0 => DGet(e, f).v = DefaultScore

\* C8's case: the user set AAPL's Policy twice, last to 0, never its Moat,
\* and then selected NVDA, whose entry holds the default pair.
C8_Witness ==
    /\ user_set["AAPL"]["Policy"].n = 2
    /\ user_set["AAPL"]["Moat"].n = 0
    /\ DGet(manual_scores, "AAPL") = ManualEntry(SliderMin, DefaultScore)
    /\ DHas(manual_scores, "NVDA")
    /\ DGet(manual_scores, "NVDA") = ManualEntry(DefaultScore, DefaultScore)


AIKeys == {"weights", "stock_insights", "ai_adjusted"}

SessionAI(key, w, ins, adj) ==
    IF key = "weights" THEN w ELSE IF key = "stock_insights" THEN ins ELSE adj

\* C14: a run started by the clear button ends with every flag False, no
\* insight, every stock's weights equal to the default table of a sector that
\* lists it, the persisted weights, stock_insights and ai_adjusted equal to
\* the session's, and manual_scores and its persisted text as they were.
C14_ClearKeepsManual ==
    [][ event' = "clear" =>
          /\ \A t \in Stocks :
                /\ DHas(ai_adjusted', t) /\ DGet(ai_adjusted', t) = JBool(FALSE)
                /\ DHas(weights', t)
                /\ \E sec \in UISectors :
                      t \in StocksOf(sec) /\ PyEq(DGet(weights', t), WDict(SECTOR_CONFIG[sec]))
          /\ stock_insights' = EmptyDict
          /\ \A key \in AIKeys :
                /\ key \in DOMAIN persistent'
                /\ PyEq(load_from_storage(persistent', key, JNull),
                        SessionAI(key, weights', stock_insights', ai_adjusted'))
          /\ manual_scores' = manual_scores
          /\ ("manual_scores" \in DOMAIN persistent') = ("manual_scores" \in DOMAIN persistent)
          /\ "manual_scores" \in DOMAIN persistent
                => persistent'["manual_scores"] = persistent["manual_scores"] ]_vars

\* C14's case: the clear button was pressed after the user had set AAPL's
\* Policy to 100 and pressed an analysis or the clear button once before; the
\* score is there in both copies.
C14_Witness ==
    /\ event = "clear"
    /\ runs = 3
    /\ user_set["AAPL"]["Policy"].n = 1
    /\ user_set["AAPL"]["Moat"].n = 0
    /\ ScoreAt(manual_scores, "AAPL", "Policy") = JNum(SliderMax)
    /\ ScoreAt(PersistedManual(persistent), "AAPL", "Policy") = JNum(SliderMax)
    /\ DKeys(manual_scores) = {"AAPL"}
    /\ selected_stock = "AAPL"
    /\ batch_sector = "Mag7"

\* C15: a stock no analysis has adjusted since the start or the last clear
\* is scored, under every sector that lists it, with that sector's default
\* weights.
C15_SectorDefaultWeights ==
    \A sec \in UISectors :
        \A t \in StocksOf(sec) :
            DGet(ai_adjusted, t) = JBool(FALSE)
                => PyEq(WeightsUsed(t), WDict(SECTOR_CONFIG[sec]))

HasInsightWeights(t) ==
    /\ DHas(stock_insights, t)
    /\ HasKey(DGet(stock_insights, t), "suggested_weights")
    /\ PyEq(DGet(weights, t), DGet(DGet(stock_insights, t), "suggested_weights"))

\* C16: at the end of every run, a stock's flag is True exactly when it has
\* an insight whose suggested_weights are its weights; and a run whose
\* analysis stops on a reply without suggested_weights leaves weights,
\* stock_insights and ai_adjusted as they were.
C16_FlagIffInsightWeights ==
    [][ /\ \A t \in Stocks :
              (DGet(ai_adjusted', t) = JBool(TRUE)) <=> HasInsightWeights(t)'
        /\ (event' \in {"analyze", "batch"} /\ page' # "all")
              => UNCHANGED <<weights, stock_insights, ai_adjusted>> ]_vars

SumOf(w) == DGet(w, "Valuation").v + DGet(w, "Quality").v
              + DGet(w, "Growth").v + DGet(w, "MoatPolicy").v

\* C17: every stock's weights carry exactly the four keys, each a number that
\* is not negative, summing to 1.0 (100 hundredths).
C17_WeightsWellFormed ==
    \A t \in Stocks :
        /\ DHas(weights, t)
        /\ LET w == DGet(weights, t)
           IN  /\ w.t = "dict"
               /\ DKeys(w) = WeightKeys
               /\ \A k \in WeightKeys : DGet(w, k).t = "num" /\ DGet(w, k).v >= 0
               /\ SumOf(w) = 100


InsightOf(ins, t) == IF DHas(ins, t) THEN <<DGet(ins, t)>> ELSE <<>>

\* C13: a run started by the batch button returns results with one entry per
\* stock of the batch sector, in list order; a stock with an error entry
\* keeps its weights, insight and flag; a reply without suggested_weights
\* counts as such a failure and the batch goes on.
C13_BatchCoversSector ==
    [][ event' = "batch" =>
          /\ batch_results' # NoBatch
          /\ LET res    == batch_results'[1]
                 stocks == SECTORS[batch_sector]
             IN  /\ Len(res) = Len(stocks)
                 /\ \A i \in 1..Len(res) :
                       /\ res[i].stock = stocks[i]
                       /\ ~res[i].ok =>
                            /\ DGet(weights', stocks[i]) = DGet(weights, stocks[i])
                            /\ InsightOf(stock_insights', stocks[i])
                                 = InsightOf(stock_insights, stocks[i])
                            /\ DGet(ai_adjusted', stocks[i]) = DGet(ai_adjusted, stocks[i]) ]_vars


-----------------------------------------------------------------------------
(* Properties of the display, checked under SpecDisplay *)

NoData(s) == fetched[s] = <<>>

RowStocks == { disp_rows[i].stock : i \in 1..Len(disp_rows) }

FailedStocks == { disp_failed[i] : i \in 1..Len(disp_failed) }

\* C11 as stated: when get_stock_data returns None for the selected stock
\* the page still shows the score 50 for it, and a stock of the sector whose
\* fetch fails is in the table with the score 50 and not among the failed.
C11_SilentDefault50 ==
    disp_pc = "done"
        => /\ NoData(selected_stock) => disp_main = Shown("score", <<50 * 100>>)
           /\ ~NoData(selected_stock) =>
                \A s \in StocksOf(selected_sector) :
                    NoData(s) => /\ s \notin FailedStocks
                                 /\ \E i \in 1..Len(disp_rows) :
                                       disp_rows[i].stock = s /\ disp_rows[i].total = 50 * 100

\* C11 amended: when get_stock_data returns None for the selected stock the
\* page shows the fetch error and no score or table; when the sector table is
\* built, every stock of the sector whose fetch fails is named among the
\* failed and has no row in the table.
C11_FetchFailureReported ==
    disp_pc = "done"
        => /\ NoData(selected_stock) =>
                /\ disp_main = Shown("fetch_error", <<>>)
                /\ disp_rows = <<>>
                /\ disp_failed = <<>>
           /\ ~NoData(selected_stock) =>
                \A s \in StocksOf(selected_sector) :
                    NoData(s) => s \in FailedStocks /\ s \notin RowStocks

\* C11's case: the selected stock has data, the other stock of its sector
\* has none: one row, one failed stock.
C11_Witness ==
    /\ disp_pc = "done"
    /\ selected_stock = "AAPL"
    /\ ~NoData("AAPL")
    /\ NoData("NVDA")
    /\ disp_main.kind = "score"
    /\ RowStocks = {"AAPL"}
    /\ disp_failed = <<"NVDA">>

====
